---- MODULE Spec2Model ----
(***************************************************************************)
(* Model of src/src/open_deep_research/utils.py: the search adapters       *)
(* (tavily_search_async, perplexity_search, exa_search,                    *)
(* arxiv_search_async, pubmed_search_async), the source formatter          *)
(* deduplicate_and_format_sources and the config filter get_search_params. *)
(*                                                                         *)
(* One behaviour of Spec is one call of one adapter on one batch of        *)
(* queries.  The provider is the environment: each request completes with  *)
(* an outcome chosen nondeterministically (documents, or an exception with *)
(* a message).  Durations are fixed-point numbers, DelayScale units per    *)
(* second, so that the multiplicative pacing of pubmed_search_async is     *)
(* exact.                                                                  *)
(***************************************************************************)
EXTENDS Integers, Sequences, FiniteSets, TLC

VARIABLES
    api,             \* the function being called
    search_queries,  \* the argument search_queries
    pc,              \* position of the call: "entry", "loop", "await", "done", "raised"
                     \* (a provider exception ended the call), "rejected" (the
                     \* arguments were refused before any work)
    i,               \* loop index of the sequential adapters (0-based, as enumerate)
    search_docs,     \* the local list search_docs
    delay,           \* the local delay of pubmed_search_async
    inflight,        \* indices (1-based) of provider requests issued and not completed
    outcome,         \* what the provider did for each query so far (history)
    log,             \* sleeps, requests and appends in the order they happened
    returned,        \* the value returned to the caller, NoValue before/without return
    search_response,        \* argument of deduplicate_and_format_sources
    max_tokens_per_source,  \* argument of deduplicate_and_format_sources
    include_raw_content,    \* argument of deduplicate_and_format_sources
    search_api,             \* argument of get_search_params
    search_api_config,      \* argument of get_search_params
    exc,                    \* str(e) of the exception that ended the call, NoValue if none
    include_domains,        \* argument of exa_search
    exclude_domains,        \* argument of exa_search
    reply,                  \* what the provider sent back for one query
    subpages,               \* argument of exa_search
    frames,                 \* the local variables of each of two pubmed_search_async calls
    resources,              \* the files, tools and assistants of the Vapi account
    new_name                \* the name given to upload_file_to_vapi, create_query_tool
                            \* or create_vapi_assistant

adapterVars == <<search_queries, i, search_docs, delay, inflight, outcome>>
formatVars == <<search_response, max_tokens_per_source, include_raw_content>>
paramVars == <<search_api, search_api_config>>
callVars == <<exc, include_domains, exclude_domains>>
queryVars == <<reply, subpages>>
batchVars == <<frames>>
vapiVars == <<resources, new_name>>
vars == <<api, pc, log, returned, adapterVars, formatVars, paramVars, callVars, queryVars, batchVars, vapiVars>>

----------------------------------------------------------------------------
(* Bounds *)

MaxQueries == 3          \* longest batch for tavily, perplexity, exa, arxiv
MaxPubmedQueries == 7    \* longest batch for pubmed (0.9^7 < 0.5 reaches the floor)
MaxDocs == 1             \* most documents / citations a provider returns for a query
MaxResults == 2          \* most results in the responses given to the formatter
MaxRawLen == 5           \* longest raw_content given to the formatter
MaxTokens == 1           \* largest max_tokens_per_source given to the formatter
MaxConfigKeys == 2        \* most entries of a search_api_config
MaxReplyDocs == 3         \* most documents in one arxiv or pubmed reply
MaxCitations == 3         \* most citations in one perplexity reply
MaxExaResults == 2        \* most main results in one exa reply
MaxSubpages == 1          \* most sub-pages of one exa result
MaxVapiResources == 3     \* most resources in the Vapi account before a call
MaxLinks == 2             \* most links in the metadata of an arxiv document
MaxOrderResults == 3      \* most results when the order of the blocks is followed
MaxBatchQueries == 2      \* longest batch when two pubmed calls are followed

----------------------------------------------------------------------------
(* Values *)

NoValue == "<no value>"
Pending == [kind |-> "pending"]

Adapters == {"tavily", "perplexity", "exa", "arxiv", "pubmed"}
Sequential == {"perplexity", "exa", "arxiv", "pubmed"}

\* str(e) of the exceptions a provider call can raise.
ErrorMessages == {"timeout", "429 rate limited", "Too Many Requests", "429 Too Many Requests"}

\* '"429" in str(e)'
Has429(msg) == msg \in {"429 rate limited", "429 Too Many Requests"}

\* '"Too Many Requests" in str(e)'
HasTooManyRequests(msg) == msg \in {"Too Many Requests", "429 Too Many Requests"}

\* What one provider call can do: return n documents, or raise.
Outcomes ==
    {[kind |-> "ok", docs |-> n] : n \in 0..MaxDocs}
    \cup {[kind |-> "fail", msg |-> m] : m \in ErrorMessages}

\* pubmed_search_async never looks at the text of an exception: two messages
\* stand for all of them there.
PubmedOutcomes ==
    {o \in Outcomes : o.kind = "fail" => o.msg \in {"timeout", "429 Too Many Requests"}}

\* Fixed-point durations: DelayScale units are one second.
DelayScale == 10^8
EXA_PACE == DelayScale \div 4           \* 0.25
EXA_RATE_LIMIT_PAUSE == DelayScale      \* 1.0
ARXIV_PACE == 3 * DelayScale            \* 3.0
ARXIV_RATE_LIMIT_PAUSE == 5 * DelayScale \* 5.0
PUBMED_START == DelayScale              \* 1.0
\* Mutant: a floor of 0.1 s.
PUBMED_FLOOR_TENTH == DelayScale \div 10
PUBMED_FLOOR == DelayScale \div 2       \* 0.5
PUBMED_CEILING == 5 * DelayScale        \* 5.0

Max(a, b) == IF a >= b THEN a ELSE b
Min(a, b) == IF a <= b THEN a ELSE b

\* Log entries
EvSleep(d) == [op |-> "sleep", secs |-> d]
EvRequest(k) == [op |-> "request", q |-> k]
EvAppend(k) == [op |-> "append", q |-> k]
EvComplete(k) == [op |-> "complete", q |-> k]

\* Mutant: the pacing sleep is taken before the first query too.
pacing_always(idx, d) == <<EvSleep(d)>>

\* 'if i > 0: await asyncio.sleep(d)' at the top of an iteration.
pacing(idx, d) == IF idx > 0 THEN <<EvSleep(d)>> ELSE <<>>

----------------------------------------------------------------------------
(* Responses *)

\* The n results of a successful query, by rank.
Results(n) == [k \in 1..n |-> [rank |-> k]]

\* The dict appended for a successful query: no 'error' key.
SuccessResponse(query, n) == [query |-> query, results |-> Results(n)]

\* Mutant: the placeholder without its 'error' entry.
ErrorResponseWithoutError(query, msg) == [query |-> query, results |-> <<>>]

\* The placeholder dict appended for a failed query.
ErrorResponse(query, msg) == [query |-> query, results |-> <<>>, error |-> msg]

\* 0-based loop index -> the query of this iteration
Query(k) == search_queries[k + 1]

\* Python's None
None == [none |-> TRUE]

----------------------------------------------------------------------------
(* exa_search *)

\* A Python list value
List(items) == [items |-> items]

\* Truthiness of an optional list argument: None and [] are falsy.
Truthy(arg) == arg # None /\ arg.items # <<>>

\* Mutant: the two filters are never found in conflict.
exa_domains_never_conflict(inc, excl) == FALSE

\* 'if include_domains and exclude_domains:' at the top of exa_search
exa_domains_conflict(inc, excl) == Truthy(inc) /\ Truthy(excl)

DOMAINS_CONFLICT == "Cannot specify both include_domains and exclude_domains"

\* The argument check made before the Exa client is built or any query is
\* processed: a ValueError leaves the function at once.
ExaEnter ==
    /\ api = "exa" /\ pc = "entry"
    /\ IF exa_domains_conflict(include_domains, exclude_domains)
       THEN pc' = "rejected" /\ exc' = DOMAINS_CONFLICT
       ELSE pc' = "loop" /\ exc' = exc
    /\ UNCHANGED <<api, log, returned, adapterVars, formatVars, paramVars,
                   include_domains, exclude_domains, queryVars, batchVars, vapiVars>>

\* process_query: no try/except of its own, the provider's exception propagates.
exa_process_query(query, o) ==
    IF o.kind = "ok"
    THEN [raised |-> FALSE, value |-> SuccessResponse(query, o.docs)]
    ELSE [raised |-> TRUE, msg |-> o.msg]

\* Mutant: every failure is taken for a rate-limit error.
exa_is_rate_limit_any(msg) == TRUE

\* 'if "429" in str(e)'
exa_is_rate_limit(msg) == Has429(msg)

\* Mutant: the request is started as a task and the loop goes on at once.
loop_after_request_detached == "loop"

\* 'result = await process_query(query)': the loop is suspended until the
\* request has completed.
loop_after_request == "await"

\* Mutant: a query that failed is taken again.
loop_next_retry(idx, o) == IF o.kind = "fail" THEN idx ELSE idx + 1

\* 'for i, query in enumerate(search_queries)': the next iteration has the
\* next query, whatever became of this one.
loop_next(idx, o) == idx + 1

\* Top of one iteration: pacing sleep (not before the first query), then the request.
ExaIssue ==
    /\ api = "exa" /\ pc = "loop" /\ i < Len(search_queries)
    /\ log' = log \o pacing(i, EXA_PACE) \o <<EvRequest(i + 1)>>
    /\ inflight' = inflight \cup {i + 1}
    /\ pc' = loop_after_request
    /\ UNCHANGED <<api, search_queries, i, search_docs, delay, outcome, returned, formatVars, paramVars, callVars, queryVars, batchVars, vapiVars>>

\* The request completes: append the result, or the placeholder and the rate-limit pause.
ExaComplete ==
    /\ api = "exa" /\ pc = "await"
    /\ \E o \in Outcomes :
        LET r == exa_process_query(Query(i), o) IN
        /\ outcome' = [outcome EXCEPT ![i + 1] = o]
        /\ i' = loop_next(i, o)
        /\ IF ~r.raised
           THEN /\ search_docs' = Append(search_docs, r.value)
                /\ log' = log \o <<EvAppend(i + 1)>>
           ELSE /\ search_docs' = Append(search_docs, ErrorResponse(Query(i), r.msg))
                /\ log' = log \o <<EvAppend(i + 1)>>
                          \o (IF exa_is_rate_limit(r.msg)
                              THEN <<EvSleep(EXA_RATE_LIMIT_PAUSE)>> ELSE <<>>)
    /\ inflight' = inflight \ {i + 1}
    /\ pc' = "loop"
    /\ UNCHANGED <<api, search_queries, delay, returned, formatVars, paramVars, callVars, queryVars, batchVars, vapiVars>>

----------------------------------------------------------------------------
(* arxiv_search_async *)

\* process_single_query: the whole body is inside try/except Exception, so a
\* provider exception is turned into a returned placeholder dict.
arxiv_process_single_query(query, o) ==
    IF o.kind = "ok"
    THEN [raised |-> FALSE, value |-> SuccessResponse(query, o.docs)]
    ELSE [raised |-> FALSE, value |-> ErrorResponse(query, o.msg)]

\* 'if "429" in str(e) or "Too Many Requests" in str(e)'
arxiv_is_rate_limit(msg) == Has429(msg) \/ HasTooManyRequests(msg)

ArxivIssue ==
    /\ api = "arxiv" /\ pc = "loop" /\ i < Len(search_queries)
    /\ log' = log \o pacing(i, ARXIV_PACE) \o <<EvRequest(i + 1)>>
    /\ inflight' = inflight \cup {i + 1}
    /\ pc' = loop_after_request
    /\ UNCHANGED <<api, search_queries, i, search_docs, delay, outcome, returned, formatVars, paramVars, callVars, queryVars, batchVars, vapiVars>>

\* The main loop's try/except around 'await process_single_query(query)'.
ArxivComplete ==
    /\ api = "arxiv" /\ pc = "await"
    /\ \E o \in Outcomes :
        LET r == arxiv_process_single_query(Query(i), o) IN
        /\ outcome' = [outcome EXCEPT ![i + 1] = o]
        /\ i' = loop_next(i, o)
        /\ IF ~r.raised
           THEN /\ search_docs' = Append(search_docs, r.value)
                /\ log' = log \o <<EvAppend(i + 1)>>
           ELSE /\ search_docs' = Append(search_docs, ErrorResponse(Query(i), r.msg))
                /\ log' = log \o <<EvAppend(i + 1)>>
                          \o (IF arxiv_is_rate_limit(r.msg)
                              THEN <<EvSleep(ARXIV_RATE_LIMIT_PAUSE)>> ELSE <<>>)
    /\ inflight' = inflight \ {i + 1}
    /\ pc' = "loop"
    /\ UNCHANGED <<api, search_queries, delay, returned, formatVars, paramVars, callVars, queryVars, batchVars, vapiVars>>

----------------------------------------------------------------------------
(* pubmed_search_async *)

\* process_single_query: as for arxiv, every exception is caught inside.
pubmed_process_single_query(query, o) ==
    IF o.kind = "ok"
    THEN [raised |-> FALSE, value |-> SuccessResponse(query, o.docs)]
    ELSE [raised |-> FALSE, value |-> ErrorResponse(query, o.msg)]

\* Mutant: every recorded response counts as one with results.
has_results_always(result) == TRUE

\* 'if result.get('results') and len(result['results']) > 0'
has_results(result) == Len(result.results) > 0

\* Mutant: the delay shrinks without a floor.
pubmed_delay_without_floor(d) == (d \div 10) * 9

\* 'delay = max(0.5, delay * 0.9)'
pubmed_delay_after_results(d) == Max(PUBMED_FLOOR, (d \div 10) * 9)

\* 'delay = min(5.0, delay * 1.5)'
pubmed_delay_after_exception(d) == Min(PUBMED_CEILING, (d \div 2) * 3)

PubmedIssue ==
    /\ api = "pubmed" /\ pc = "loop" /\ i < Len(search_queries)
    /\ log' = log \o pacing(i, delay) \o <<EvRequest(i + 1)>>
    /\ inflight' = inflight \cup {i + 1}
    /\ pc' = loop_after_request
    /\ UNCHANGED <<api, search_queries, i, search_docs, delay, outcome, returned, formatVars, paramVars, callVars, queryVars, batchVars, vapiVars>>

PubmedComplete ==
    /\ api = "pubmed" /\ pc = "await"
    /\ \E o \in PubmedOutcomes :
        LET r == pubmed_process_single_query(Query(i), o) IN
        /\ outcome' = [outcome EXCEPT ![i + 1] = o]
        /\ i' = loop_next(i, o)
        /\ IF ~r.raised
           THEN /\ search_docs' = Append(search_docs, r.value)
                /\ delay' = IF has_results(r.value)
                            THEN pubmed_delay_after_results(delay)
                            ELSE delay
           ELSE /\ search_docs' = Append(search_docs, ErrorResponse(Query(i), r.msg))
                /\ delay' = pubmed_delay_after_exception(delay)
    /\ log' = log \o <<EvAppend(i + 1)>>
    /\ inflight' = inflight \ {i + 1}
    /\ pc' = "loop"
    /\ UNCHANGED <<api, search_queries, returned, formatVars, paramVars, callVars, queryVars, batchVars, vapiVars>>

----------------------------------------------------------------------------
(* perplexity_search *)

\* The provider's JSON may also lack the "citations" key.
PerplexityOutcomes == Outcomes \cup {[kind |-> "ok_no_citations_key"]}

\* 'requests.post(...)' of one iteration; there is no pacing sleep.
PerplexityPost ==
    /\ api = "perplexity" /\ pc = "loop" /\ i < Len(search_queries)
    /\ log' = log \o <<EvRequest(i + 1)>>
    /\ inflight' = {i + 1}
    /\ pc' = "await"
    /\ UNCHANGED <<api, search_queries, i, search_docs, delay, outcome, returned, formatVars, paramVars, callVars, queryVars, batchVars, vapiVars>>

\* The rest of the iteration.  Nothing is caught: raise_for_status() and
\* citations[0] on an empty list end the call with the exception.
PerplexityResponse ==
    /\ api = "perplexity" /\ pc = "await"
    /\ \E o \in PerplexityOutcomes :
        LET citations == IF o.kind = "ok_no_citations_key" THEN 1
                         ELSE IF o.kind = "ok" THEN o.docs ELSE 0
        IN
        /\ outcome' = [outcome EXCEPT ![i + 1] = o]
        /\ IF o.kind # "fail" /\ citations > 0
           THEN /\ search_docs' = Append(search_docs, SuccessResponse(Query(i), citations))
                /\ log' = log \o <<EvAppend(i + 1)>>
                /\ i' = i + 1
                /\ pc' = "loop"
                /\ exc' = exc
           ELSE /\ pc' = "raised"
                /\ exc' = IF o.kind = "fail" THEN o.msg ELSE "list index out of range"
                /\ UNCHANGED <<search_docs, log, i>>
    /\ inflight' = {}
    /\ UNCHANGED <<api, search_queries, delay, returned, formatVars, paramVars,
                   include_domains, exclude_domains, queryVars, batchVars, vapiVars>>

----------------------------------------------------------------------------
(* tavily_search_async *)

\* Build one search coroutine per query and hand them all to asyncio.gather.
TavilyGather ==
    /\ api = "tavily" /\ pc = "loop"
    /\ log' = log \o [k \in 1..Len(search_queries) |-> EvRequest(k)]
    /\ inflight' = 1..Len(search_queries)
    /\ pc' = "await"
    /\ UNCHANGED <<api, search_queries, i, search_docs, delay, outcome, returned, formatVars, paramVars, callVars, queryVars, batchVars, vapiVars>>

\* Mutant: gather(..., return_exceptions=True), no exception is propagated.
gather_return_exceptions(o) == FALSE

\* 'await asyncio.gather(*search_tasks)': without return_exceptions the
\* exception of a search is propagated to the awaiting caller.
gather_raises(o) == o.kind = "fail"

\* What gather() holds for one finished search.
tavily_result(query, o) ==
    IF o.kind = "ok" THEN SuccessResponse(query, o.docs) ELSE [exception |-> o.msg]

\* Mutant: the results in the order in which the searches finished.
gather_as_completed(queries, outc, finished) ==
    [p \in 1..Len(finished) |-> tavily_result(queries[finished[p]], outc[finished[p]])]

\* The list gather() yields: one entry per awaitable, in argument order.
gather_results(queries, outc, finished) ==
    [k \in 1..Len(queries) |-> tavily_result(queries[k], outc[k])]

\* The searches in the order in which they finished.
CompletionOrder ==
    LET done == SelectSeq(log, LAMBDA e : e.op = "complete")
    IN  [p \in 1..Len(done) |-> done[p].q]

\* One of the searches finishes, in any order.  The first exception ends the
\* call; the other searches keep running.
TavilyComplete ==
    /\ api = "tavily" /\ pc \in {"await", "raised"}
    /\ \E k \in inflight, o \in Outcomes :
        /\ outcome' = [outcome EXCEPT ![k] = o]
        /\ inflight' = inflight \ {k}
        /\ log' = Append(log, EvComplete(k))
        /\ IF pc = "await" /\ gather_raises(o)
           THEN pc' = "raised" /\ exc' = o.msg
           ELSE pc' = pc /\ exc' = exc
    /\ UNCHANGED <<api, search_queries, i, search_docs, delay, returned, formatVars, paramVars,
                   include_domains, exclude_domains, queryVars, batchVars, vapiVars>>

\* All searches finished without exception: the function returns gather()'s list.
TavilyReturn ==
    /\ api = "tavily" /\ pc = "await" /\ inflight = {}
    /\ search_docs' = gather_results(search_queries, outcome, CompletionOrder)
    /\ returned' = search_docs'
    /\ pc' = "done"
    /\ UNCHANGED <<api, search_queries, i, delay, inflight, outcome, log, formatVars, paramVars, callVars, queryVars, batchVars, vapiVars>>

----------------------------------------------------------------------------
\* 'return search_docs' after the loop of a sequential adapter.
ReturnDocs ==
    /\ api \in Sequential /\ pc = "loop" /\ i = Len(search_queries)
    /\ returned' = search_docs
    /\ pc' = "done"
    /\ UNCHANGED <<api, search_queries, i, search_docs, delay, inflight, outcome, log, formatVars, paramVars, callVars, queryVars, batchVars, vapiVars>>

----------------------------------------------------------------------------
(* deduplicate_and_format_sources *)

\* Text is a sequence of character codes; WS is a whitespace character.
WS == 0
Str(s) == [str |-> s]

\* '"... [truncated]"' is kept as a flag of the block, not as characters.
CHARS_PER_TOKEN == 4

\* 'for response in search_response: sources_list.extend(response['results'])'
RECURSIVE sources_list(_)
sources_list(responses) ==
    IF responses = <<>> THEN <<>>
    ELSE Head(responses).results \o sources_list(Tail(responses))

\* Mutant: a key already present keeps its first value (setdefault).
dict_setdefault(d, key, value) ==
    IF \E j \in 1..Len(d) : d[j].key = key
    THEN d
    ELSE Append(d, [key |-> key, value |-> value])

\* One 'd[key] = value' of a dict: a key already present keeps its position
\* and gets the new value; a new key goes to the end.
dict_setitem(d, key, value) ==
    IF \E j \in 1..Len(d) : d[j].key = key
    THEN [j \in 1..Len(d) |-> IF d[j].key = key THEN [key |-> key, value |-> value] ELSE d[j]]
    ELSE Append(d, [key |-> key, value |-> value])

\* '{source['url']: source for source in sources_list}', built left to right.
RECURSIVE dict_comprehension(_, _)
dict_comprehension(d, sources) ==
    IF sources = <<>> THEN d
    ELSE dict_comprehension(dict_setitem(d, Head(sources).url, Head(sources)), Tail(sources))

\* Mutant: the sources in the order of the last occurrence of their url.
unique_sources_by_last(sources) ==
    LET rev == [j \in 1..Len(sources) |-> sources[Len(sources) + 1 - j]]
        d == dict_comprehension(<<>>, rev)
    IN  [j \in 1..Len(d) |-> d[Len(d) + 1 - j].value]

\* 'unique_sources.values()'
unique_sources(sources) ==
    LET d == dict_comprehension(<<>>, sources) IN [j \in 1..Len(d) |-> d[j].value]

\* Mutant: a None raw_content is written as the text "None".
raw_content_of_none_as_text(source) ==
    IF "raw_content" \notin DOMAIN source THEN <<>>
    ELSE IF source.raw_content = None THEN <<78, 111, 110, 101>>
    ELSE source.raw_content.str

\* 'source.get('raw_content', '')' followed by the 'is None' test.
raw_content_of(source) ==
    IF "raw_content" \notin DOMAIN source THEN <<>>
    ELSE IF source.raw_content = None THEN <<>>
    ELSE source.raw_content.str

\* 'raw_content[:char_limit]'
Slice(text, n) == SubSeq(text, 1, Min(n, Len(text)))

\* Mutant: a raw_content of exactly the limit's length is truncated too.
format_source_at_limit(source, max_tokens, include_raw) ==
    LET head == [title |-> source.title, url |-> source.url, content |-> source.content]
        char_limit == max_tokens * CHARS_PER_TOKEN
        raw == raw_content_of(source)
    IN  IF ~include_raw THEN head
        ELSE IF Len(raw) >= char_limit
        THEN head @@ [raw |-> Slice(raw, char_limit), truncated |-> TRUE]
        ELSE head @@ [raw |-> raw, truncated |-> FALSE]

\* The text written for one source.  Without include_raw_content the block
\* has no raw part.
format_source(source, max_tokens, include_raw) ==
    LET head == [title |-> source.title, url |-> source.url, content |-> source.content]
        char_limit == max_tokens * CHARS_PER_TOKEN
        raw == raw_content_of(source)
    IN  IF ~include_raw THEN head
        ELSE IF Len(raw) > char_limit
        THEN head @@ [raw |-> Slice(raw, char_limit), truncated |-> TRUE]
        ELSE head @@ [raw |-> raw, truncated |-> FALSE]

\* Removal of trailing whitespace from a text.
RECURSIVE rstrip(_)
rstrip(text) ==
    IF text = <<>> \/ text[Len(text)] # WS THEN text
    ELSE rstrip(SubSeq(text, 1, Len(text) - 1))

\* 'formatted_text.strip()'.  The text starts with "Sources:" and every field
\* but the last raw part is followed by a non-blank label or separator, so
\* only the raw part of the last block can lose characters, and only when it
\* is not followed by the truncation marker.
strip(blocks) ==
    LET n == Len(blocks) IN
    IF n > 0 /\ "raw" \in DOMAIN blocks[n] /\ ~blocks[n].truncated
    THEN [blocks EXCEPT ![n] = [blocks[n] EXCEPT !.raw = rstrip(@)]]
    ELSE blocks

\* The whole function: the blocks of the returned text, in order.
deduplicate_and_format_sources(responses, max_tokens, include_raw) ==
    LET sources == unique_sources(sources_list(responses)) IN
    strip([j \in 1..Len(sources) |-> format_source(sources[j], max_tokens, include_raw)])

\* The 'print(f"Warning: No raw_content found ...")' lines, in order.
format_warnings(responses, include_raw) ==
    LET sources == unique_sources(sources_list(responses)) IN
    IF ~include_raw THEN <<>>
    ELSE SelectSeq([j \in 1..Len(sources) |-> sources[j]],
                   LAMBDA src : "raw_content" \in DOMAIN src /\ src.raw_content = None)

DeduplicateAndFormatSources ==
    /\ api = "deduplicate_and_format_sources" /\ pc = "call"
    /\ returned' = deduplicate_and_format_sources(search_response, max_tokens_per_source,
                                                  include_raw_content)
    /\ log' = LET w == format_warnings(search_response, include_raw_content)
              IN [j \in 1..Len(w) |-> [op |-> "print", url |-> w[j].url]]
    /\ pc' = "done"
    /\ UNCHANGED <<api, adapterVars, formatVars, paramVars, callVars, queryVars, batchVars, vapiVars>>

\* Inputs of the formatter: two urls, each reported in two versions that
\* differ in title and content.
Urls == {"u1", "u2"}
Pages == {[title |-> "t1", content |-> "c1"], [title |-> "t2", content |-> "c2"]}

\* A text of n characters with a whitespace at every fourth position.
RawText(n) == [k \in 1..n |-> IF k % 4 = 0 THEN WS ELSE k]

RawLens == {0} \cup {n \in 1..MaxRawLen : n >= MaxRawLen - 2}

RawContents == {None} \cup {Str(RawText(n)) : n \in RawLens}

\* Result dicts without and with the 'raw_content' key.
SearchResults ==
    {[title |-> p.title, url |-> u, content |-> p.content] : p \in Pages, u \in Urls}
    \cup {[title |-> p.title, url |-> u, content |-> p.content, raw_content |-> r] :
              p \in Pages, u \in Urls, r \in RawContents}

\* The results of a call, spread over two responses.
SplitAt(flat, k) ==
    <<[query |-> 1, results |-> SubSeq(flat, 1, k)],
      [query |-> 2, results |-> SubSeq(flat, k + 1, Len(flat))]>>

InitFormat ==
    /\ api = "deduplicate_and_format_sources"
    /\ pc = "call"
    /\ \E n \in 0..MaxResults : \E flat \in [1..n -> SearchResults], k \in 0..n :
           search_response = SplitAt(flat, k)
    /\ max_tokens_per_source \in 0..MaxTokens
    /\ include_raw_content \in BOOLEAN
    /\ log = <<>>
    /\ returned = NoValue
    /\ search_queries = <<>> /\ i = 0 /\ search_docs = <<>> /\ delay = 0
    /\ inflight = {} /\ outcome = <<>>
    /\ search_api = NoValue /\ search_api_config = NoValue
    /\ exc = NoValue /\ include_domains = None /\ exclude_domains = None
    /\ reply = NoValue /\ subpages = None /\ frames = NoValue
    /\ resources = NoValue /\ new_name = NoValue

NextFormat == DeduplicateAndFormatSources

SpecFormat == InitFormat /\ [][NextFormat]_vars

\* Longer inputs over three urls, for the order of the blocks.
OrderUrls == Urls \cup {"u3"}
OrderResults == {[title |-> p.title, url |-> u, content |-> p.content] : p \in Pages, u \in OrderUrls}

InitOrder ==
    /\ api = "deduplicate_and_format_sources"
    /\ pc = "call"
    /\ \E n \in 0..MaxOrderResults : \E flat \in [1..n -> OrderResults], k \in 0..n :
           search_response = SplitAt(flat, k)
    /\ max_tokens_per_source = MaxTokens
    /\ include_raw_content \in BOOLEAN
    /\ log = <<>>
    /\ returned = NoValue
    /\ search_queries = <<>> /\ i = 0 /\ search_docs = <<>> /\ delay = 0
    /\ inflight = {} /\ outcome = <<>>
    /\ search_api = NoValue /\ search_api_config = NoValue
    /\ exc = NoValue /\ include_domains = None /\ exclude_domains = None
    /\ reply = NoValue /\ subpages = None /\ frames = NoValue
    /\ resources = NoValue /\ new_name = NoValue

SpecOrder == InitOrder /\ [][NextFormat]_vars

----------------------------------------------------------------------------
(* get_search_params *)

\* The dict SEARCH_API_PARAMS.
SEARCH_API_PARAMS ==
    [exa |-> {"max_characters", "num_results", "include_domains", "exclude_domains", "subpages"},
     tavily |-> {},
     perplexity |-> {},
     arxiv |-> {"load_max_docs", "get_full_documents", "load_all_available_meta"},
     pubmed |-> {"top_k_results", "email", "api_key", "doc_content_chars_max"}]

\* 'SEARCH_API_PARAMS.get(search_api, [])'
accepted_params(name) ==
    IF name \in DOMAIN SEARCH_API_PARAMS THEN SEARCH_API_PARAMS[name] ELSE {}

EmptyDict == [k \in {} |-> 0]

\* 'not search_api_config': None and the empty dict are both falsy.
Falsy(config) == config = None \/ DOMAIN config = {}

\* Mutant: the configuration is passed through unfiltered.
get_search_params_unfiltered(name, config) ==
    IF Falsy(config) THEN EmptyDict ELSE config

get_search_params(name, config) ==
    IF Falsy(config) THEN EmptyDict
    ELSE [k \in {key \in DOMAIN config : key \in accepted_params(name)} |-> config[k]]

GetSearchParams ==
    /\ api = "get_search_params" /\ pc = "call"
    /\ returned' = get_search_params(search_api, search_api_config)
    /\ pc' = "done"
    /\ UNCHANGED <<api, log, adapterVars, formatVars, paramVars, callVars, queryVars, batchVars, vapiVars>>

\* Inputs of the filter.
SearchApis == DOMAIN SEARCH_API_PARAMS \cup {"duckduckgo"}
ConfigKeys == UNION {SEARCH_API_PARAMS[a] : a \in DOMAIN SEARCH_API_PARAMS} \cup {"region"}
ConfigValues == {0, 5}

\* The key sets of the configurations: at most MaxConfigKeys entries.
ConfigKeySets == {ks \in SUBSET ConfigKeys : Cardinality(ks) <= MaxConfigKeys}

InitParams ==
    /\ api = "get_search_params"
    /\ pc = "call"
    /\ search_api \in SearchApis
    /\ \/ search_api_config = None
       \/ \E keys \in ConfigKeySets : search_api_config \in [keys -> ConfigValues]
    /\ log = <<>>
    /\ returned = NoValue
    /\ search_queries = <<>> /\ i = 0 /\ search_docs = <<>> /\ delay = 0
    /\ inflight = {} /\ outcome = <<>>
    /\ search_response = NoValue /\ max_tokens_per_source = NoValue
    /\ include_raw_content = NoValue
    /\ exc = NoValue /\ include_domains = None /\ exclude_domains = None
    /\ reply = NoValue /\ subpages = None /\ frames = NoValue
    /\ resources = NoValue /\ new_name = NoValue

NextParams == GetSearchParams

SpecParams == InitParams /\ [][NextParams]_vars

----------------------------------------------------------------------------
QueryLists(a) ==
    {[k \in 1..n |-> k] : n \in 0..(IF a = "pubmed" THEN MaxPubmedQueries ELSE MaxQueries)}

\* include_domains / exclude_domains: Optional[List[str]]
DomainArgs == {None, List(<<>>), List(<<"arxiv.org">>)}

Init ==
    /\ api \in Adapters
    /\ search_queries \in QueryLists(api)
    /\ pc = IF api = "exa" THEN "entry" ELSE "loop"
    /\ i = 0
    /\ search_docs = <<>>
    /\ delay = PUBMED_START
    /\ inflight = {}
    /\ outcome = [k \in 1..Len(search_queries) |-> Pending]
    /\ log = <<>>
    /\ returned = NoValue
    /\ search_response = NoValue
    /\ max_tokens_per_source = NoValue
    /\ include_raw_content = NoValue
    /\ search_api = NoValue
    /\ search_api_config = NoValue
    /\ exc = NoValue
    /\ include_domains \in (IF api = "exa" THEN DomainArgs ELSE {None})
    /\ exclude_domains \in (IF api = "exa" THEN DomainArgs ELSE {None})
    /\ reply = NoValue
    /\ subpages = None
    /\ frames = NoValue
    /\ resources = NoValue /\ new_name = NoValue

Next ==
    \/ ExaEnter
    \/ TavilyGather
    \/ TavilyComplete
    \/ TavilyReturn
    \/ PerplexityPost
    \/ PerplexityResponse
    \/ ExaIssue
    \/ ExaComplete
    \/ ArxivIssue
    \/ ArxivComplete
    \/ PubmedIssue
    \/ PubmedComplete
    \/ ReturnDocs

Spec == Init /\ [][Next]_vars

----------------------------------------------------------------------------
(* One query: the results an adapter builds from the provider's reply *)

\* Exact fractions, for the synthetic scores.
Rat(n, d) == [num |-> n, den |-> d]
RatTimes(k, r) == Rat(k * r.num, r.den)
RatMinus(a, b) == Rat(a.num * b.den - b.num * a.den, a.den * b.den)

\* 'd.get(key, default)'
dict_get(d, key, default) == IF key \in DOMAIN d THEN d[key] ELSE default

\* The dict built for one query.
Response(query, results) == [query |-> query, results |-> results]

\* perplexity_search: 'data.get("citations", ["https://perplexity.ai"])'
DEFAULT_CITATIONS == <<"https://perplexity.ai">>
PLACEHOLDER == "See primary source for full content"
citations_of(data) == dict_get(data, "citations", DEFAULT_CITATIONS)

\* Mutant: every citation carries the answer.
perplexity_results_all_primary(data) ==
    LET citations == citations_of(data) IN
    [j \in 1..Len(citations) |->
        [title |-> [source |-> j], url |-> citations[j], content |-> data.content,
         raw_content |-> Str(data.content), score |-> Rat(1, 1)]]

\* The first citation carries the answer, the others the placeholder.
perplexity_results(data) ==
    LET citations == citations_of(data) IN
    [j \in 1..Len(citations) |->
        IF j = 1
        THEN [title |-> [source |-> 1], url |-> citations[1], content |-> data.content,
              raw_content |-> Str(data.content), score |-> Rat(1, 1)]
        ELSE [title |-> [source |-> j], url |-> citations[j], content |-> PLACEHOLDER,
              raw_content |-> None, score |-> Rat(1, 2)]]

\* One iteration of perplexity_search after a 2xx reply.  'citations[0]' on
\* an empty list is an IndexError, and nothing catches it.
PerplexityResults ==
    /\ api = "perplexity" /\ pc = "call"
    /\ IF Len(citations_of(reply)) = 0
       THEN pc' = "raised" /\ exc' = "list index out of range" /\ returned' = returned
       ELSE pc' = "done" /\ exc' = exc /\ returned' = Response(1, perplexity_results(reply))
    /\ UNCHANGED <<api, log, adapterVars, formatVars, paramVars,
                   include_domains, exclude_domains, queryVars, batchVars, vapiVars>>

\* Mutant: the decrement is 1/len(docs).
score_decrement_per_doc(docs) == IF Len(docs) > 0 THEN Rat(1, Len(docs)) ELSE Rat(0, 1)

\* 'score_decrement = 1.0 / (len(docs) + 1) if docs else 0'
score_decrement(docs) == IF Len(docs) > 0 THEN Rat(1, Len(docs) + 1) ELSE Rat(0, 1)

\* 'base_score - (i * score_decrement)', i counted from 0
score(idx, docs) == RatMinus(Rat(1, 1), RatTimes(idx, score_decrement(docs)))

\* Truthiness of a metadata value: None, '' and [] are falsy.
is_truthy(v) == v \notin {None, Str(""), List(<<>>)}

\* One entry of content_parts: f"{label}: {value}"
Line(label, value) == [label |-> label, value |-> value]

\* 'published.isoformat() if hasattr(published, 'isoformat') else
\*  str(published) if published else (the empty string)'
published_str(published) ==
    IF "isoformat" \in DOMAIN published THEN Str(published.isoformat)
    ELSE IF is_truthy(published) THEN published
    ELSE Str("")

\* ''pdf' in link'
PdfLinks == {"http://arxiv.org/pdf/2401.00001v1", "http://arxiv.org/pdf/2401.00001v2"}
OtherLinks == {"http://arxiv.org/abs/2401.00001v1"}
ContainsPdf(link) == link \in PdfLinks

\* Mutant: a line for every link that contains 'pdf' (no break).
every_pdf_line(links) ==
    LET pdfs == SelectSeq(links, LAMBDA link : ContainsPdf(link))
    IN  [p \in 1..Len(pdfs) |-> Line("PDF", Str(pdfs[p]))]

\* 'for link in metadata['links']: if 'pdf' in link: ...append...; break':
\* a line for the first link that contains 'pdf'.
first_pdf_line(links) ==
    LET pdfs == SelectSeq(links, LAMBDA link : ContainsPdf(link))
    IN  IF pdfs = <<>> THEN <<>> ELSE <<Line("PDF", Str(pdfs[1]))>>

\* content_parts of arxiv_search_async.process_single_query, in the order of
\* the appends; the content is their join with newlines.
arxiv_content(metadata) ==
    LET has(key) == key \in DOMAIN metadata
        filled(key) == has(key) /\ is_truthy(metadata[key])
        published == published_str(dict_get(metadata, "Published", None))
    IN  (IF has("Summary") THEN <<Line("Summary", metadata["Summary"])>> ELSE <<>>)
        \o (IF has("Authors") THEN <<Line("Authors", metadata["Authors"])>> ELSE <<>>)
        \o (IF published # Str("") THEN <<Line("Published", published)>> ELSE <<>>)
        \o (IF has("primary_category")
            THEN <<Line("Primary Category", metadata["primary_category"])>> ELSE <<>>)
        \o (IF filled("categories") THEN <<Line("Categories", metadata["categories"])>> ELSE <<>>)
        \o (IF filled("comment") THEN <<Line("Comment", metadata["comment"])>> ELSE <<>>)
        \o (IF filled("journal_ref")
            THEN <<Line("Journal Reference", metadata["journal_ref"])>> ELSE <<>>)
        \o (IF filled("doi") THEN <<Line("DOI", metadata["doi"])>> ELSE <<>>)
        \o (IF filled("links") THEN first_pdf_line(metadata["links"].items) ELSE <<>>)

\* arxiv_search_async.process_single_query: the url is the entry_id of the
\* metadata, '' without one.
arxiv_results(docs) ==
    [j \in 1..Len(docs) |->
        [title |-> dict_get(docs[j].metadata, "Title", ""),
         url |-> dict_get(docs[j].metadata, "entry_id", ""),
         content |-> arxiv_content(docs[j].metadata),
         score |-> score(j - 1, docs)]]

ArxivProcessSingleQuery ==
    /\ api = "arxiv" /\ pc = "call"
    /\ returned' = Response(1, arxiv_results(reply))
    /\ pc' = "done"
    /\ UNCHANGED <<api, log, adapterVars, formatVars, paramVars, callVars, queryVars, batchVars, vapiVars>>

PubmedUids == {"31452104", "28465307"}

\* 'f"https://pubmed.ncbi.nlm.nih.gov/{uid}/"'
PUBMED_URL ==
    [uid \in PubmedUids |->
        IF uid = "31452104" THEN "https://pubmed.ncbi.nlm.nih.gov/31452104/"
        ELSE "https://pubmed.ncbi.nlm.nih.gov/28465307/"]

\* '... if uid else ""'
pubmed_url(uid) == IF uid = "" THEN "" ELSE PUBMED_URL[uid]

\* content_parts of pubmed_search_async.process_single_query: 'if doc.get(key)'
pubmed_content(doc) ==
    LET filled(key) == is_truthy(dict_get(doc, key, None))
    IN  (IF filled("Published") THEN <<Line("Published", doc["Published"])>> ELSE <<>>)
        \o (IF filled("Copyright Information")
            THEN <<Line("Copyright Information", doc["Copyright Information"])>> ELSE <<>>)
        \o (IF filled("Summary") THEN <<Line("Summary", doc["Summary"])>> ELSE <<>>)

\* pubmed_search_async.process_single_query
pubmed_results(docs) ==
    [j \in 1..Len(docs) |->
        [title |-> dict_get(docs[j], "Title", ""),
         url |-> pubmed_url(dict_get(docs[j], "uid", "")),
         content |-> pubmed_content(docs[j]),
         score |-> score(j - 1, docs)]]

PubmedProcessSingleQuery ==
    /\ api = "pubmed" /\ pc = "call"
    /\ returned' = Response(1, pubmed_results(reply))
    /\ pc' = "done"
    /\ UNCHANGED <<api, log, adapterVars, formatVars, paramVars, callVars, queryVars, batchVars, vapiVars>>

\* exa_search.process_query: one pass of the 'if url in seen_urls: continue'
\* loop over a list of provider entries.
RECURSIVE exa_add_unseen(_, _)
exa_add_unseen(formatted, entries) ==
    IF entries = <<>> THEN formatted
    ELSE LET entry == Head(entries)
             url == dict_get(entry, "url", "")
             seen_urls == {formatted[j].url : j \in 1..Len(formatted)}
         IN  IF url \in seen_urls
             THEN exa_add_unseen(formatted, Tail(entries))
             ELSE exa_add_unseen(
                      Append(formatted, [title |-> dict_get(entry, "title", ""), url |-> url,
                                         score |-> dict_get(entry, "score", Rat(0, 1))]),
                      Tail(entries))

\* The sub-pages of all main results, in order.
RECURSIVE exa_subpages(_)
exa_subpages(results_list) ==
    IF results_list = <<>> THEN <<>>
    ELSE dict_get(Head(results_list), "subpages", <<>>) \o exa_subpages(Tail(results_list))

\* Main results first, then the sub-pages when the subpages argument was given.
exa_formatted_results(results_list, subpages_arg) ==
    LET main == exa_add_unseen(<<>>, results_list) IN
    IF subpages_arg # None THEN exa_add_unseen(main, exa_subpages(results_list)) ELSE main

ExaProcessQuery ==
    /\ api = "exa" /\ pc = "call"
    /\ returned' = Response(1, exa_formatted_results(reply, subpages))
    /\ pc' = "done"
    /\ UNCHANGED <<api, log, adapterVars, formatVars, paramVars, callVars, queryVars, batchVars, vapiVars>>

\* The provider's replies.  The identifiers a provider gives are distinct;
\* an entry may come without one.
Distinct(ids) == \A j, k \in 1..Len(ids) : (j # k /\ ids[j] # "") => ids[j] # ids[k]

Doc(key, id) == IF id = "" THEN [Title |-> "t"] ELSE [Title |-> "t"] @@ (key :> id)

ArxivReplies ==
    {[j \in 1..Len(ids) |-> [metadata |-> Doc("entry_id", ids[j])]] :
        ids \in {x \in UNION {[1..n -> Urls \cup {""}] : n \in 0..MaxReplyDocs} : Distinct(x)}}

\* A pubmed record without uid, with an empty uid, or with a uid.
PubmedDocs == {[Title |-> "t"], [Title |-> "t", uid |-> ""]} \cup
              {[Title |-> "t", uid |-> u] : u \in PubmedUids}

PubmedReplies ==
    {docs \in UNION {[1..n -> PubmedDocs] : n \in 0..MaxReplyDocs} :
        Distinct([j \in 1..Len(docs) |-> dict_get(docs[j], "uid", "")])}

CitationUrls == Urls \cup {"u3"}

PerplexityReplies ==
    {[content |-> "answer"]} \cup
    {[content |-> "answer", citations |-> c] :
        c \in {x \in UNION {[1..n -> CitationUrls] : n \in 0..MaxCitations} : Distinct(x)}}

ExaSubpageLists == UNION {[1..n -> {[url |-> u, score |-> Rat(1, 2)] : u \in Urls}] : n \in 0..MaxSubpages}

ExaEntries ==
    {[score |-> Rat(1, 1), subpages |-> sp] : sp \in ExaSubpageLists} \cup
    {[url |-> u, score |-> Rat(1, 1), subpages |-> sp] : u \in Urls, sp \in ExaSubpageLists}

ExaReplies == UNION {[1..n -> ExaEntries] : n \in 0..MaxExaResults}

InitQuery ==
    /\ api \in {"exa", "perplexity", "arxiv", "pubmed"}
    /\ pc = "call"
    /\ reply \in CASE api = "exa" -> ExaReplies
                   [] api = "perplexity" -> PerplexityReplies
                   [] api = "arxiv" -> ArxivReplies
                   [] api = "pubmed" -> PubmedReplies
    /\ subpages \in (IF api = "exa" THEN {None, [count |-> 1]} ELSE {None})
    /\ log = <<>>
    /\ returned = NoValue
    /\ search_queries = <<1>> /\ i = 0 /\ search_docs = <<>> /\ delay = 0
    /\ inflight = {} /\ outcome = <<>>
    /\ search_response = NoValue /\ max_tokens_per_source = NoValue
    /\ include_raw_content = NoValue
    /\ search_api = NoValue /\ search_api_config = NoValue
    /\ exc = NoValue /\ include_domains = None /\ exclude_domains = None
    /\ frames = NoValue
    /\ resources = NoValue /\ new_name = NoValue

NextQuery ==
    \/ ExaProcessQuery
    \/ PerplexityResults
    \/ ArxivProcessSingleQuery
    \/ PubmedProcessSingleQuery

SpecQuery == InitQuery /\ [][NextQuery]_vars

----------------------------------------------------------------------------
(* One arxiv or pubmed document with all of its metadata *)

Absent == [absent |-> TRUE]

\* A dict with the entry key: value, or without it.
Field(key, value) == IF value = Absent THEN EmptyDict ELSE (key :> value)

\* A text the provider always fills when it gives it at all.
GivenText(t) == {Absent, Str(t)}

\* A text that may also be given empty.
OptionalText(t) == {Absent, Str(""), Str(t)}

PublishedValues == {Absent, Str(""), Str("2024-01-05"), [isoformat |-> "2024-01-05T00:00:00"]}

CategoryLists == {Absent, List(<<>>), List(<<"cs.CL", "cs.AI">>)}

LinkLists ==
    {Absent} \cup {List(l) : l \in UNION {[1..n -> PdfLinks \cup OtherLinks] : n \in 0..MaxLinks}}

InitContent ==
    /\ api \in {"arxiv", "pubmed"}
    /\ pc = "call"
    /\ IF api = "arxiv"
       THEN \E summary \in GivenText("We study"), authors \in GivenText("A. Author"),
               published \in PublishedValues, primary \in GivenText("cs.CL"),
               categories \in CategoryLists, comment \in OptionalText("12 pages"),
               journal \in OptionalText("J. Ref. 1"), doi \in OptionalText("10.1000/1"),
               links \in LinkLists :
                reply = <<[metadata |->
                    Field("Title", Str("t")) @@ Field("Summary", summary)
                    @@ Field("Authors", authors) @@ Field("Published", published)
                    @@ Field("primary_category", primary) @@ Field("categories", categories)
                    @@ Field("comment", comment) @@ Field("journal_ref", journal)
                    @@ Field("doi", doi) @@ Field("links", links)]>>
       ELSE \E published \in OptionalText("2024-01-05"),
               copyright \in OptionalText("(c) 2024"),
               summary \in OptionalText("We study"),
               uid \in {Absent, Str("")} \cup {Str(u) : u \in PubmedUids} :
                reply = <<Field("Title", Str("t")) @@ Field("Published", published)
                          @@ Field("Copyright Information", copyright)
                          @@ Field("Summary", summary)
                          @@ (IF uid = Absent THEN EmptyDict ELSE ("uid" :> uid.str))>>
    /\ subpages = None
    /\ log = <<>>
    /\ returned = NoValue
    /\ search_queries = <<1>> /\ i = 0 /\ search_docs = <<>> /\ delay = 0
    /\ inflight = {} /\ outcome = <<>>
    /\ search_response = NoValue /\ max_tokens_per_source = NoValue
    /\ include_raw_content = NoValue
    /\ search_api = NoValue /\ search_api_config = NoValue
    /\ exc = NoValue /\ include_domains = None /\ exclude_domains = None
    /\ frames = NoValue
    /\ resources = NoValue /\ new_name = NoValue

NextContent ==
    \/ ArxivProcessSingleQuery
    \/ PubmedProcessSingleQuery

SpecContent == InitContent /\ [][NextContent]_vars

----------------------------------------------------------------------------
(* upload_file_to_vapi, create_query_tool, create_vapi_assistant *)

VapiFunctions == {"upload_file_to_vapi", "create_query_tool", "create_vapi_assistant"}

\* The kind of resource each function creates, and cleans up before.
kind_of(fn) ==
    CASE fn = "upload_file_to_vapi" -> "file"
      [] fn = "create_query_tool" -> "tool"
      [] fn = "create_vapi_assistant" -> "assistant"

\* The requests sent to the Vapi API.
EvGet(kind) == [op |-> "GET", kind |-> kind]
EvDelete(kind, id) == [op |-> "DELETE", kind |-> kind, id |-> id]
EvPost(kind, name) == [op |-> "POST", kind |-> kind, name |-> name]

\* list_vapi_files / list_vapi_tools / list_vapi_assistants: the resources
\* of one kind that exist.
list_vapi(kind) == SelectSeq(resources, LAMBDA r : r.kind = kind /\ ~r.deleted)

\* Mutant: a file is matched by its name alone.
matches_by_name_only(r, name) ==
    CASE r.kind = "file" -> r.name = name
      [] r.kind = "tool" -> r.function.name = name
      [] r.kind = "assistant" -> r.name = name

\* The three tests of cleanup_vapi_resources_by_name: a file by name or
\* originalName, a tool by function.name, an assistant by name.
matches(r, name) ==
    CASE r.kind = "file" -> r.name = name \/ r.originalName = name
      [] r.kind = "tool" -> r.function.name = name
      [] r.kind = "assistant" -> r.name = name

\* 'if file_name:' / 'if tool_name:' / 'if assistant_name:'
name_given(name) == name # ""

\* cleanup_vapi_resources_by_name with the one argument the function gives
\* it: the list request, then a delete request for every listed resource
\* that matches, in list order.  Each request may fail (raise_for_status),
\* which ends the function; nothing catches it.
CleanupVapiResourcesByName ==
    /\ api \in VapiFunctions /\ pc = "cleanup"
    /\ IF ~name_given(new_name)
       THEN pc' = "create" /\ UNCHANGED <<log, resources, exc>>
       ELSE LET kind == kind_of(api)
                found == SelectSeq(list_vapi(kind), LAMBDA r : matches(r, new_name))
            IN  \/ /\ log' = <<EvGet(kind)>>
                   /\ pc' = "raised" /\ exc' = "HTTPError"
                   /\ UNCHANGED resources
                \/ \E gone \in 0..Len(found) :
                       LET ids == {found[p].id : p \in 1..gone} IN
                       /\ resources' = [p \in 1..Len(resources) |->
                                           IF resources[p].id \in ids
                                           THEN [resources[p] EXCEPT !.deleted = TRUE]
                                           ELSE resources[p]]
                       /\ IF gone = Len(found)
                          THEN /\ log' = <<EvGet(kind)>>
                                         \o [p \in 1..gone |-> EvDelete(kind, found[p].id)]
                               /\ pc' = "create" /\ exc' = exc
                          ELSE /\ log' = <<EvGet(kind)>>
                                         \o [p \in 1..(gone + 1) |-> EvDelete(kind, found[p].id)]
                               /\ pc' = "raised" /\ exc' = "HTTPError"
    /\ UNCHANGED <<api, returned, new_name, adapterVars, formatVars, paramVars,
                   include_domains, exclude_domains, queryVars, batchVars>>

\* The resource the provider makes of a creation request.
created(kind, id, name) ==
    CASE kind = "file" ->
             [id |-> id, kind |-> kind, name |-> name, originalName |-> name, deleted |-> FALSE]
      [] kind = "tool" ->
             [id |-> id, kind |-> kind, function |-> [name |-> name], deleted |-> FALSE]
      [] kind = "assistant" ->
             [id |-> id, kind |-> kind, name |-> name, deleted |-> FALSE]

\* The creation request after the cleanup; it may fail, and for the upload
\* the file may fail to open before anything is sent.
VapiCreate ==
    /\ api \in VapiFunctions /\ pc = "create"
    /\ \/ /\ log' = Append(log, EvPost(kind_of(api), new_name))
          /\ resources' = Append(resources, created(kind_of(api), Len(resources) + 1, new_name))
          /\ returned' = Len(resources) + 1
          /\ pc' = "done" /\ exc' = exc
       \/ /\ log' = Append(log, EvPost(kind_of(api), new_name))
          /\ pc' = "raised" /\ exc' = "HTTPError"
          /\ UNCHANGED <<resources, returned>>
       \/ /\ api = "upload_file_to_vapi"
          /\ pc' = "raised" /\ exc' = "FileNotFoundError"
          /\ UNCHANGED <<log, resources, returned>>
    /\ UNCHANGED <<api, new_name, adapterVars, formatVars, paramVars,
                   include_domains, exclude_domains, queryVars, batchVars>>

VapiNames == {"bill", "act"}

\* What an account can hold, without the ids.
ResourceShapes ==
    {[kind |-> "file", name |-> n, originalName |-> o, deleted |-> FALSE] :
         n \in VapiNames, o \in VapiNames}
    \cup {[kind |-> "tool", function |-> [name |-> n], deleted |-> FALSE] : n \in VapiNames}
    \cup {[kind |-> "assistant", name |-> n, deleted |-> FALSE] : n \in VapiNames}

InitVapi ==
    /\ api \in VapiFunctions
    /\ pc = "cleanup"
    /\ \E n \in 0..MaxVapiResources : \E shapes \in [1..n -> ResourceShapes] :
           resources = [p \in 1..n |-> shapes[p] @@ [id |-> p]]
    /\ new_name \in VapiNames \cup {""}
    /\ log = <<>>
    /\ returned = NoValue
    /\ search_queries = <<>> /\ i = 0 /\ search_docs = <<>> /\ delay = 0
    /\ inflight = {} /\ outcome = <<>>
    /\ search_response = NoValue /\ max_tokens_per_source = NoValue
    /\ include_raw_content = NoValue
    /\ search_api = NoValue /\ search_api_config = NoValue
    /\ exc = NoValue /\ include_domains = None /\ exclude_domains = None
    /\ reply = NoValue /\ subpages = None /\ frames = NoValue

NextVapi ==
    \/ CleanupVapiResourcesByName
    \/ VapiCreate

SpecVapi == InitVapi /\ [][NextVapi]_vars

----------------------------------------------------------------------------
(* The sequential adapters alone, with the steps of a batch always taken *)

InitSequential ==
    /\ Init
    /\ api \in {"exa", "arxiv", "pubmed"}
    /\ Len(search_queries) <= MaxQueries

NextSequential ==
    \/ ExaEnter
    \/ ExaIssue
    \/ ExaComplete
    \/ ArxivIssue
    \/ ArxivComplete
    \/ PubmedIssue
    \/ PubmedComplete
    \/ ReturnDocs

\* The event loop runs a coroutine that can go on, and an awaited provider
\* call comes back, with a result or with an exception.
SpecSequential == InitSequential /\ [][NextSequential]_vars /\ WF_vars(NextSequential)

----------------------------------------------------------------------------
(* Two calls of pubmed_search_async, one after the other or interleaved *)

\* The calls.  Each has its own frame of local variables; 'delay' (the
\* variable of the model) records the value most recently assigned to a
\* local delay by either call.
Calls == {"first", "second"}

\* Mutant: a call starts with the delay last assigned by any call.
pubmed_start_delay_carried(last) == last

\* 'delay = 1.0' at the start of pubmed_search_async
pubmed_start_delay(last) == PUBMED_START

Other(c) == CHOOSE d \in Calls : d # c

\* What a query can come to: results, no results, an exception.
BatchOutcomes ==
    {[kind |-> "ok", docs |-> 1], [kind |-> "ok", docs |-> 0], [kind |-> "fail", msg |-> "timeout"]}

\* The call is made: 'search_docs = []', 'delay = 1.0'.
BatchStart(c) ==
    /\ frames[c].pc = "idle"
    /\ \E n \in 1..MaxBatchQueries :
        frames' = [frames EXCEPT ![c] =
                      [pc |-> "loop", n |-> n, i |-> 0,
                       delay |-> pubmed_start_delay(delay),
                       search_docs |-> <<>>, slept |-> <<>>,
                       overlap |-> /\ frames[Other(c)].pc \in {"loop", "await"}
                                   /\ frames[Other(c)].delay # PUBMED_START]]
    /\ delay' = pubmed_start_delay(delay)
    /\ UNCHANGED <<api, pc, log, returned, search_queries, i, search_docs, inflight, outcome,
                   formatVars, paramVars, callVars, queryVars, vapiVars>>

\* 'if i > 0: await asyncio.sleep(delay)', then the provider is asked.
BatchIssue(c) ==
    /\ frames[c].pc = "loop" /\ frames[c].i < frames[c].n
    /\ frames' = [frames EXCEPT ![c].pc = "await",
                                ![c].slept = @ \o pacing(frames[c].i, frames[c].delay)]
    /\ UNCHANGED <<api, pc, log, returned, adapterVars, formatVars, paramVars, callVars, queryVars, vapiVars>>

\* process_single_query returns, with or without results (an error is a
\* response without results); the delay shrinks after results.
BatchComplete(c) ==
    /\ frames[c].pc = "await"
    /\ \E o \in BatchOutcomes :
        LET r == pubmed_process_single_query(frames[c].i + 1, o)
            d == IF has_results(r.value)
                 THEN pubmed_delay_after_results(frames[c].delay)
                 ELSE frames[c].delay
        IN  /\ frames' = [frames EXCEPT ![c].pc = "loop",
                                        ![c].i = @ + 1,
                                        ![c].search_docs = Append(@, r.value),
                                        ![c].delay = d]
            /\ delay' = d
    /\ UNCHANGED <<api, pc, log, returned, search_queries, i, search_docs, inflight, outcome,
                   formatVars, paramVars, callVars, queryVars, vapiVars>>

\* 'return search_docs'
BatchReturn(c) ==
    /\ frames[c].pc = "loop" /\ frames[c].i = frames[c].n
    /\ frames' = [frames EXCEPT ![c].pc = "done"]
    /\ UNCHANGED <<api, pc, log, returned, adapterVars, formatVars, paramVars, callVars, queryVars, vapiVars>>

InitBatches ==
    /\ api = "pubmed"
    /\ pc = "calls"
    /\ frames = [c \in Calls |-> [pc |-> "idle"]]
    /\ delay = PUBMED_START
    /\ log = <<>>
    /\ returned = NoValue
    /\ search_queries = <<>> /\ i = 0 /\ search_docs = <<>>
    /\ inflight = {} /\ outcome = <<>>
    /\ search_response = NoValue /\ max_tokens_per_source = NoValue
    /\ include_raw_content = NoValue
    /\ search_api = NoValue /\ search_api_config = NoValue
    /\ exc = NoValue /\ include_domains = None /\ exclude_domains = None
    /\ reply = NoValue /\ subpages = None
    /\ resources = NoValue /\ new_name = NoValue

NextBatches ==
    \E c \in Calls :
        \/ BatchStart(c)
        \/ BatchIssue(c)
        \/ BatchComplete(c)
        \/ BatchReturn(c)

SpecBatches == InitBatches /\ [][NextBatches]_vars

----------------------------------------------------------------------------
(* Properties *)

SeqAdapters == {"exa", "arxiv", "pubmed"}

Failed(k) == outcome[k].kind = "fail"
Succeeded(k) == outcome[k].kind = "ok"

\* Position in the log of the request, and of the append, of query k.
PosRequest(k) == CHOOSE p \in 1..Len(log) : log[p] = EvRequest(k)
PosAppend(k) == CHOOSE p \in 1..Len(log) : log[p] = EvAppend(k)
Requested(k) == \E p \in 1..Len(log) : log[p] = EvRequest(k)

\* End of the part of the log that belongs to query k: the request of the
\* next query, or the end of the log.
PosNext(k) == IF Requested(k + 1) THEN PosRequest(k + 1) ELSE Len(log) + 1

\* The queries requested so far, in the order of their requests.
RequestOrder ==
    LET reqs == SelectSeq(log, LAMBDA e : e.op = "request")
    IN  [p \in 1..Len(reqs) |-> reqs[p].q]

\* C1: every adapter returns exactly one response per query, response k
\* belonging to query k, whatever queries fail (the call never ends without
\* returning its N responses).
C1_PositionalInvariant ==
    api \in Adapters =>
        /\ pc # "raised"
        /\ pc = "done" =>
            /\ Len(returned) = Len(search_queries)
            /\ \A k \in 1..Len(returned) : returned[k].query = search_queries[k]

\* C2: in exa, arxiv and pubmed a failed query yields, at its own index, a
\* response with empty results and the error string; a successful query
\* yields a response without an error field; the queries are requested in
\* input order and the call returns one response for each of them.
C2_FailureIsolation ==
    api \in SeqAdapters =>
        /\ pc # "raised"
        /\ RequestOrder = [k \in 1..Len(RequestOrder) |-> k]
        /\ \A k \in 1..Len(search_queries) :
            outcome[k] # Pending => k <= Len(search_docs)
        /\ \A k \in 1..Len(search_docs) :
            /\ search_docs[k].query = search_queries[k]
            /\ Failed(k) =>
                /\ search_docs[k].results = <<>>
                /\ "error" \in DOMAIN search_docs[k]
                /\ search_docs[k].error = outcome[k].msg
            /\ Succeeded(k) =>
                /\ "error" \notin DOMAIN search_docs[k]
                /\ Len(search_docs[k].results) = outcome[k].docs
        /\ pc = "done" =>
            /\ returned = search_docs
            /\ Len(returned) = Len(search_queries)
            /\ Len(RequestOrder) = Len(search_queries)

\* C2 witness: a finished batch in which a failed query is followed by a
\* successful one.
C2_Witness ==
    /\ api \in SeqAdapters /\ pc = "done"
    /\ \E k \in 1..(Len(search_queries) - 1) : Failed(k) /\ Succeeded(k + 1)

----------------------------------------------------------------------------
\* The entries given to the formatter, in traversal order.
FlatInput == sources_list(search_response)
EntriesOf(u) == {a \in 1..Len(FlatInput) : FlatInput[a].url = u}
BlocksOf(u) == {j \in 1..Len(returned) : returned[j].url = u}
FirstOf(u) == CHOOSE a \in EntriesOf(u) : \A b \in EntriesOf(u) : a <= b
LastOf(u) == CHOOSE a \in EntriesOf(u) : \A b \in EntriesOf(u) : a >= b

\* Urls carried by two entries of different content.
Conflicting ==
    {u \in Urls : \E a, b \in EntriesOf(u) : FlatInput[a].content # FlatInput[b].content}

----------------------------------------------------------------------------
\* The source shown in block j and its raw content ('' when absent or None).
SourceOf(j) == FlatInput[LastOf(returned[j].url)]
RawOf(j) ==
    IF "raw_content" \in DOMAIN SourceOf(j) /\ SourceOf(j).raw_content # None
    THEN SourceOf(j).raw_content.str ELSE <<>>
CharLimit == max_tokens_per_source * 4

IsPrefix(s, t) == Len(s) <= Len(t) /\ \A p \in 1..Len(s) : s[p] = t[p]

\* C4 as stated: with raw content included, a raw_content longer than
\* max_tokens_per_source*4 is shown as its first max_tokens_per_source*4
\* characters followed by the marker; otherwise the whole raw_content is shown
\* without marker.
C4_TruncationLaw ==
    (api = "deduplicate_and_format_sources" /\ pc = "done" /\ include_raw_content) =>
        \A j \in 1..Len(returned) :
            IF Len(RawOf(j)) > CharLimit
            THEN /\ returned[j].truncated
                 /\ returned[j].raw = SubSeq(RawOf(j), 1, CharLimit)
            ELSE /\ ~returned[j].truncated
                 /\ returned[j].raw = RawOf(j)

\* C4 amended: as C4, except that in the last block a raw_content that is not
\* truncated is shown without its trailing whitespace (the returned text is
\* stripped).
C4_TruncationLawStripped ==
    (api = "deduplicate_and_format_sources" /\ pc = "done" /\ include_raw_content) =>
        \A j \in 1..Len(returned) :
            IF Len(RawOf(j)) > CharLimit
            THEN /\ returned[j].truncated
                 /\ returned[j].raw = SubSeq(RawOf(j), 1, CharLimit)
            ELSE /\ ~returned[j].truncated
                 /\ IF j < Len(returned)
                    THEN returned[j].raw = RawOf(j)
                    ELSE /\ IsPrefix(returned[j].raw, RawOf(j))
                         /\ \A p \in (Len(returned[j].raw) + 1)..Len(RawOf(j)) : RawOf(j)[p] = WS
                         /\ returned[j].raw # <<>> => returned[j].raw[Len(returned[j].raw)] # WS

\* C4 witness: one block truncated to a non-empty prefix, and one block whose
\* raw_content has exactly the limit's length.
C4_Witness ==
    /\ api = "deduplicate_and_format_sources" /\ pc = "done" /\ include_raw_content
    /\ CharLimit > 0
    /\ \E j \in 1..Len(returned) : returned[j].truncated /\ Len(returned[j].raw) = CharLimit
    /\ \E j \in 1..Len(returned) : ~returned[j].truncated /\ Len(RawOf(j)) = CharLimit

----------------------------------------------------------------------------
ConfigKeysOf(config) == IF config = None THEN {} ELSE DOMAIN config

\* C5: get_search_params returns exactly the entries of the configuration
\* whose key the provider accepts, values unchanged; {} for an unknown
\* provider and for an absent or empty configuration; it never raises.
C5_ConfigFilter ==
    api = "get_search_params" =>
        /\ pc # "raised"
        /\ pc = "done" =>
            /\ DOMAIN returned =
                   {k \in ConfigKeysOf(search_api_config) :
                       /\ search_api \in DOMAIN SEARCH_API_PARAMS
                       /\ k \in SEARCH_API_PARAMS[search_api]}
            /\ \A k \in DOMAIN returned : returned[k] = search_api_config[k]
            /\ search_api \notin DOMAIN SEARCH_API_PARAMS => returned = EmptyDict
            /\ ConfigKeysOf(search_api_config) = {} => returned = EmptyDict

\* C5 witness: a configuration with an accepted and a foreign key, filtered
\* to the accepted one.
C5_Witness ==
    /\ api = "get_search_params" /\ pc = "done"
    /\ search_api = "exa"
    /\ ConfigKeysOf(search_api_config) = {"num_results", "region"}
    /\ DOMAIN returned = {"num_results"}

----------------------------------------------------------------------------
\* C6: in perplexity_search a query whose request fails gets a response with
\* empty results and the error message, and the batch continues.
C6_PerplexityIsolatesFailure ==
    api = "perplexity" =>
        \A k \in 1..Len(search_queries) :
            Failed(k) =>
                /\ pc # "raised"
                /\ k <= Len(search_docs)
                /\ search_docs[k].results = <<>>
                /\ "error" \in DOMAIN search_docs[k]
                /\ search_docs[k].error = outcome[k].msg

----------------------------------------------------------------------------
\* The pause taken before the request of query k (k >= 2).
SleepBefore(k) == log[PosRequest(k) - 1].secs

\* The pubmed delay in force when query k completed, and after it.
DelayBefore(k) == IF k = 1 THEN PUBMED_START ELSE SleepBefore(k)
DelayAfter(k) == IF k = Len(search_docs) THEN delay ELSE SleepBefore(k + 1)

NonEmpty(k) == Succeeded(k) /\ outcome[k].docs >= 1

\* 0.9^k seconds
PowNineTenths(k) == (DelayScale \div 10^k) * 9^k

\* C7: in pubmed_search_async, after a query whose provider call raised, the
\* delay is min(5.0, delay*1.5), and that is the pause before the next query.
C7_DelayGrowsAfterFailure ==
    api = "pubmed" =>
        \A k \in 1..Len(search_docs) :
            Failed(k) => DelayAfter(k) = Min(PUBMED_CEILING, (DelayBefore(k) \div 2) * 3)

\* C8: in pubmed_search_async the delay starts at 1.0; after each query that
\* returns at least one result it is max(0.5, delay*0.9); after k such
\* queries from the start it is max(0.5, 0.9^k).
C8_DelayShrinksAfterResults ==
    api = "pubmed" =>
        /\ Len(search_docs) = 0 => delay = DelayScale
        /\ \A k \in 1..Len(search_docs) :
            NonEmpty(k) => DelayAfter(k) = Max(DelayScale \div 2, (DelayBefore(k) \div 10) * 9)
        /\ (\A k \in 1..Len(search_docs) : NonEmpty(k)) =>
            delay = Max(DelayScale \div 2, PowNineTenths(Len(search_docs)))

\* C8 witness: three queries with results from the start, delay 0.729.
C8_Witness ==
    /\ api = "pubmed" /\ Len(search_docs) = 3
    /\ \A k \in 1..3 : NonEmpty(k)
    /\ delay = (DelayScale \div 1000) * 729

----------------------------------------------------------------------------
RateLimited(k) ==
    Failed(k) /\ (Has429(outcome[k].msg) \/ HasTooManyRequests(outcome[k].msg))

\* Number of pauses of d seconds in the part of the log that belongs to query k.
PausesOf(k, d) ==
    Cardinality({p \in (PosRequest(k) + 1)..(PosNext(k) - 1) : log[p] = EvSleep(d)})

\* C9: in arxiv_search_async a query that fails with a rate-limit error
\* ('429' or 'Too Many Requests') is followed by one extra 5-second pause
\* before the next query.
C9_ArxivRateLimitPause ==
    api = "arxiv" =>
        \A k \in 1..Len(search_docs) :
            RateLimited(k) =>
                /\ PosAppend(k) < Len(log)
                /\ log[PosAppend(k) + 1] = EvSleep(5 * DelayScale)

\* C10: in exa_search a query failing with a message containing '429' is
\* followed by exactly one extra 1.0-second pause, after its error response is
\* recorded and before the next query's regular 0.25-second pause and request;
\* any other query adds no extra pause.
C10_ExaRateLimitPause ==
    api = "exa" =>
        \A k \in 1..Len(search_docs) :
            /\ IF Failed(k) /\ Has429(outcome[k].msg)
               THEN /\ PausesOf(k, DelayScale) = 1
                    /\ "error" \in DOMAIN search_docs[k]
                    /\ log[PosAppend(k) + 1] = EvSleep(DelayScale)
               ELSE PausesOf(k, DelayScale) = 0
            /\ Requested(k + 1) =>
                /\ log[PosRequest(k + 1) - 1] = EvSleep(DelayScale \div 4)
                /\ PausesOf(k, DelayScale \div 4) = 1

\* C10 witness: a finished batch with a '429' failure followed by another
\* query, and a failure of another kind.
C10_Witness ==
    /\ api = "exa" /\ pc = "done"
    /\ \E k \in 1..(Len(search_queries) - 1) : Failed(k) /\ Has429(outcome[k].msg)
    /\ \E k \in 1..Len(search_queries) : Failed(k) /\ ~Has429(outcome[k].msg)

----------------------------------------------------------------------------
\* Number of pauses of d seconds in the whole log.
PausesIn(d) == Cardinality({p \in 1..Len(log) : log[p] = EvSleep(d)})

\* Number of pauses of d seconds between the requests of queries k - 1 and k.
PausesBetween(k, d) ==
    Cardinality({p \in (PosRequest(k - 1) + 1)..(PosRequest(k) - 1) : log[p] = EvSleep(d)})

\* C11: in exa_search and arxiv_search_async nothing precedes the request of
\* the first query; the request of every later query is immediately preceded
\* by the regular pause (0.25 s for exa, 3.0 s for arxiv), and that is the
\* only regular pause since the previous request, whether or not earlier
\* queries failed; a finished batch of N >= 1 queries has taken N-1 of them.
C11_RegularPacing ==
    api \in {"exa", "arxiv"} =>
        LET pace == IF api = "exa" THEN DelayScale \div 4 ELSE 3 * DelayScale
            N == Len(search_queries)
        IN  /\ Requested(1) => PosRequest(1) = 1
            /\ \A k \in 2..N :
                Requested(k) =>
                    /\ log[PosRequest(k) - 1] = EvSleep(pace)
                    /\ PausesBetween(k, pace) = 1
            /\ (pc = "done" /\ N >= 1) => PausesIn(pace) = N - 1

\* C11 witness: a finished batch of at least two queries in which a query
\* before the last one failed.
C11_Witness ==
    /\ api \in {"exa", "arxiv"} /\ pc = "done"
    /\ Len(search_queries) >= 2
    /\ \E k \in 1..(Len(search_queries) - 1) : Failed(k)
    /\ \E k \in 1..Len(search_queries) : Succeeded(k)

----------------------------------------------------------------------------
\* Position in the log of the completion of search k.
Completed(k) == \E p \in 1..Len(log) : log[p] = EvComplete(k)
PosComplete(k) == CHOOSE p \in 1..Len(log) : log[p] = EvComplete(k)

\* C12: tavily_search_async has issued the calls of all its queries, in
\* input order, before any of them is awaited or completes; it returns only
\* when every call has completed; and whatever the order of the completions,
\* response k of the returned list is the provider's answer to query k.
C12_GatherInInputOrder ==
    api = "tavily" =>
        LET N == Len(search_queries)
        IN  /\ pc # "loop" =>
                /\ Len(log) >= N
                /\ \A k \in 1..N : log[k] = EvRequest(k)
            /\ \A p \in 1..Len(log) : log[p].op = "complete" => p > N /\ pc # "loop"
            /\ pc = "done" =>
                /\ inflight = {}
                /\ \A k \in 1..N : Completed(k)
                /\ Len(returned) = N
                /\ \A k \in 1..N :
                    /\ returned[k].query = search_queries[k]
                    /\ returned[k].results = Results(outcome[k].docs)

\* C12 witness: a returned batch in which a later query completed before an
\* earlier one and the two answers differ.
C12_Witness ==
    /\ api = "tavily" /\ pc = "done"
    /\ \E j, k \in 1..Len(search_queries) :
        /\ j < k /\ PosComplete(k) < PosComplete(j)
        /\ outcome[j].docs # outcome[k].docs

\* The first search whose call raised, in completion order.
FirstFailure ==
    LET p == CHOOSE p \in 1..Len(log) :
                 /\ log[p].op = "complete" /\ Failed(log[p].q)
                 /\ \A r \in 1..(p - 1) : log[r].op = "complete" => ~Failed(log[r].q)
    IN  log[p].q

\* C13: in tavily_search_async, once the call of any query has raised, the
\* batch call has failed with that error (the first one raised) and nothing
\* is returned, not even the answers of the calls that succeeded.
C13_GatherFailsWholeBatch ==
    api = "tavily" =>
        ((\E k \in 1..Len(search_queries) : outcome[k] # Pending /\ Failed(k)) =>
            /\ pc = "raised"
            /\ exc = outcome[FirstFailure].msg
            /\ search_docs = <<>>
            /\ returned = NoValue)

\* C13 witness: the batch has failed, one call succeeded and one raised.
C13_Witness ==
    /\ api = "tavily" /\ pc = "raised" /\ inflight = {}
    /\ \E k \in 1..Len(search_queries) : Succeeded(k)
    /\ \E k \in 1..Len(search_queries) : Failed(k)

----------------------------------------------------------------------------
\* C14: exa_search called with a non-empty include_domains and a non-empty
\* exclude_domains never gets past its argument check: it ends with the
\* ValueError, no request is issued, no query is processed and no response
\* list, partial or not, is built or returned.
C14_DomainsConflictRejected ==
    (/\ api = "exa"
     /\ include_domains \notin {None, List(<<>>)}
     /\ exclude_domains \notin {None, List(<<>>)}) =>
        /\ pc \in {"entry", "rejected"}
        /\ pc = "rejected" => exc = "Cannot specify both include_domains and exclude_domains"
        /\ log = <<>>
        /\ inflight = {}
        /\ search_docs = <<>>
        /\ i = 0
        /\ returned = NoValue

\* C14 witness: the call with both filters given has been rejected.
C14_Witness ==
    /\ api = "exa" /\ pc = "rejected"
    /\ Len(search_queries) >= 1
    /\ include_domains = List(<<"arxiv.org">>) /\ exclude_domains = List(<<"arxiv.org">>)

----------------------------------------------------------------------------
\* C20: in pubmed_search_async the pacing delay is between 0.5 s and 5.0 s at
\* every point of the batch, and so is every pause that was taken.
C20_DelayWithinBounds ==
    api = "pubmed" =>
        /\ DelayScale \div 2 <= delay /\ delay <= 5 * DelayScale
        /\ \A p \in 1..Len(log) :
            log[p].op = "sleep" =>
                DelayScale \div 2 <= log[p].secs /\ log[p].secs <= 5 * DelayScale

\* C20 witness: the delay has come down to the floor.
C20_Witness ==
    /\ api = "pubmed" /\ pc = "done"
    /\ delay = DelayScale \div 2
    /\ \A k \in 1..Len(search_queries) : NonEmpty(k)

----------------------------------------------------------------------------
\* The source shown by block j has no raw_content: key missing, or None.
RawAbsent(j) ==
    "raw_content" \notin DOMAIN SourceOf(j) \/ SourceOf(j).raw_content = None

\* The urls of the input, each once.
InputUrls == {FlatInput[a].url : a \in 1..Len(FlatInput)}

\* C18: with raw content included, the call returns for every input; a source
\* whose raw_content is missing or None gets its block with title, url and
\* content, an empty raw part and no truncation marker; and every url of the
\* input still has its block.
C18_AbsentRawContentIsEmpty ==
    (api = "deduplicate_and_format_sources" /\ include_raw_content) =>
        /\ pc \in {"call", "done"}
        /\ pc = "done" =>
            /\ \A j \in 1..Len(returned) :
                RawAbsent(j) =>
                    /\ returned[j].raw = <<>>
                    /\ ~returned[j].truncated
                    /\ returned[j].title = SourceOf(j).title
                    /\ returned[j].content = SourceOf(j).content
            /\ \A u \in InputUrls : Cardinality(BlocksOf(u)) = 1
            /\ Len(returned) = Cardinality(InputUrls)

\* C18 witness: a block for a source whose raw_content is None, next to a
\* block that shows a non-empty raw_content.
C18_Witness ==
    /\ api = "deduplicate_and_format_sources" /\ pc = "done" /\ include_raw_content
    /\ \E j, k \in 1..Len(returned) :
        /\ "raw_content" \in DOMAIN SourceOf(j) /\ SourceOf(j).raw_content = None
        /\ ~RawAbsent(k) /\ returned[k].raw # <<>>

----------------------------------------------------------------------------
\* C15: in arxiv_search_async and pubmed_search_async the results of a query
\* with n >= 1 documents have the scores 1 - i/(n+1), i = 0..n-1: the first
\* is exactly 1, each one is strictly smaller than the one before, and the
\* last is strictly greater than 0.
C15_ScoresDescend ==
    (api \in {"arxiv", "pubmed"} /\ pc = "done" /\ Len(reply) >= 1) =>
        LET res == returned.results
            n == Len(reply)
        IN  /\ Len(res) = n
            /\ \A j \in 1..n :
                /\ res[j].score.den > 0
                /\ res[j].score.num * (n + 1) = (n + 1 - (j - 1)) * res[j].score.den
            /\ res[1].score.num = res[1].score.den
            /\ \A j \in 1..(n - 1) :
                res[j + 1].score.num * res[j].score.den < res[j].score.num * res[j + 1].score.den
            /\ res[n].score.num > 0

\* C15 witness: a reply of three documents has been scored.
C15_Witness ==
    /\ api \in {"arxiv", "pubmed"} /\ pc = "done"
    /\ Len(reply) = 3 /\ Len(returned.results) = 3

\* C16: the response perplexity_search builds for a query has one result per
\* citation, in citation order (the default citation when the reply has no
\* citations entry); the first has the answer as content and raw_content and
\* score 1.0, every later one has the placeholder content, raw_content None
\* and score 0.5.
C16_PerplexityResultShape ==
    (api = "perplexity" /\ pc = "done") =>
        LET cites == IF "citations" \in DOMAIN reply THEN reply.citations
                     ELSE <<"https://perplexity.ai">>
            res == returned.results
        IN  /\ Len(res) = Len(cites)
            /\ \A j \in 1..Len(res) :
                /\ res[j].url = cites[j]
                /\ res[j].title = [source |-> j]
                /\ IF j = 1
                   THEN /\ res[j].content = reply.content
                        /\ res[j].raw_content = Str(reply.content)
                        /\ res[j].score.num = res[j].score.den
                   ELSE /\ res[j].content = "See primary source for full content"
                        /\ res[j].raw_content = None
                        /\ 2 * res[j].score.num = res[j].score.den

\* C16 witness: a response built from three citations.
C16_Witness ==
    /\ api = "perplexity" /\ pc = "done"
    /\ "citations" \in DOMAIN reply /\ Len(reply.citations) = 3
    /\ Len(returned.results) = 3

\* C17: no two results of the response built for a query have the same url.
C17_UrlUniqueWithinResponse ==
    (api \in {"exa", "perplexity", "arxiv", "pubmed"} /\ pc = "done") =>
        \A j, k \in 1..Len(returned.results) :
            j # k => returned.results[j].url # returned.results[k].url

\* The part of C17 that holds: exa_search, across main results and sub-pages.
C17_ExaUrlUnique ==
    (api = "exa" /\ pc = "done") =>
        \A j, k \in 1..Len(returned.results) :
            j # k => returned.results[j].url # returned.results[k].url

----------------------------------------------------------------------------
\* The delay a call has after the given responses, counted from 1.0 by its
\* own responses alone.
RECURSIVE DelayFromOwn(_)
DelayFromOwn(docs) ==
    IF docs = <<>> THEN DelayScale
    ELSE LET d == DelayFromOwn(SubSeq(docs, 1, Len(docs) - 1))
         IN  IF Len(docs[Len(docs)].results) > 0
             THEN Max(DelayScale \div 2, (d \div 10) * 9)
             ELSE d

\* C19: a call of pubmed_search_async starts with delay 1.0 whatever another
\* call, finished or still running, has made of its own delay; at every
\* point its delay, and every pause it has taken, is the one that follows
\* from its own responses alone.
C19_DelayIsPerCall ==
    \A c \in Calls :
        frames[c].pc # "idle" =>
            /\ frames[c].search_docs = <<>> => frames[c].delay = DelayScale
            /\ frames[c].delay = DelayFromOwn(frames[c].search_docs)
            /\ \A k \in 1..Len(frames[c].slept) :
                frames[c].slept[k] = EvSleep(DelayFromOwn(SubSeq(frames[c].search_docs, 1, k)))

\* C19 witness: a call that started while the other call was running with a
\* lowered delay has finished after pausing, and the two calls end with
\* different delays.
C19_Witness ==
    \E c \in Calls :
        /\ frames[c].pc = "done" /\ frames[c].overlap
        /\ Len(frames[c].slept) >= 1
        /\ frames[Other(c)].pc = "done"
        /\ frames[Other(c)].delay # frames[c].delay

----------------------------------------------------------------------------
\* Number of log entries of one kind.
CountOf(op) == Cardinality({p \in 1..Len(log) : log[p].op = op})

Appended(k) == \E p \in 1..Len(log) : log[p] = EvAppend(k)

----------------------------------------------------------------------------
\* Number of requests made for query k.
RequestsOf(k) == Cardinality({p \in 1..Len(log) : log[p] = EvRequest(k)})

\* Every query is requested at most once, none is passed over, and a
\* finished batch has requested each of its N queries once.
ExactlyOnce ==
    /\ \A k \in 1..Len(search_queries) : RequestsOf(k) <= 1
    /\ \A k \in 1..(Len(search_queries) - 1) : RequestsOf(k + 1) = 1 => RequestsOf(k) = 1
    /\ pc = "done" =>
        /\ \A k \in 1..Len(search_queries) : RequestsOf(k) = 1
        /\ CountOf("request") = Len(search_queries)
        /\ Len(returned) = Len(search_queries)

\* C22: in exa_search, arxiv_search_async and pubmed_search_async every
\* query is sent to the provider exactly once, failed or not, in input
\* order; a batch of N queries makes N requests and then returns.
C22_ExactlyOnceThenDone ==
    /\ [](api \in {"exa", "arxiv", "pubmed"} => ExactlyOnce)
    /\ <>(pc \in {"done", "rejected"})

\* C22 witness: a batch of three queries has returned, with a failed query
\* before the last one.
C22_Witness ==
    /\ api \in {"exa", "arxiv", "pubmed"} /\ pc = "done"
    /\ Len(search_queries) = 3 /\ CountOf("request") = 3
    /\ \E k \in 1..2 : Failed(k)

----------------------------------------------------------------------------
\* C23: the blocks of deduplicate_and_format_sources stand in the order in
\* which their urls first occur in the input, read response by response and
\* result by result; every url of the input has exactly one block, wherever
\* its later duplicates stand.
C23_BlocksInFirstSeenOrder ==
    (api = "deduplicate_and_format_sources" /\ pc = "done") =>
        /\ \A u \in InputUrls : Cardinality(BlocksOf(u)) = 1
        /\ \A j \in 1..Len(returned) : returned[j].url \in InputUrls
        /\ \A j, k \in 1..Len(returned) :
            j < k => FirstOf(returned[j].url) < FirstOf(returned[k].url)

\* C23 witness: a url occurs again after another url, in another response,
\* and both have their block.
C23_Witness ==
    /\ api = "deduplicate_and_format_sources" /\ pc = "done"
    /\ Len(returned) = 2
    /\ Len(search_response[1].results) = 2
    /\ \E a, b, c \in 1..Len(FlatInput) :
        /\ a < b /\ b < c
        /\ FlatInput[a].url = FlatInput[c].url
        /\ FlatInput[a].url # FlatInput[b].url
        /\ FlatInput[a].content # FlatInput[c].content

----------------------------------------------------------------------------
\* The one document given, and the one result made of it.
TheDoc == IF api = "arxiv" THEN reply[1].metadata ELSE reply[1]
TheResult == returned.results[1]

\* A field is present: the document has it, with a value that is not empty.
Present(key) ==
    key \in DOMAIN TheDoc /\ TheDoc[key] \notin {None, Str(""), List(<<>>)}

\* The value as it is written: a date object by its ISO text.
Written(key) ==
    IF "isoformat" \in DOMAIN TheDoc[key] THEN Str(TheDoc[key].isoformat) ELSE TheDoc[key]

\* Positions of the links that contain 'pdf'.
PdfPositions ==
    IF Present("links")
    THEN {p \in 1..Len(TheDoc["links"].items) : TheDoc["links"].items[p] \in PdfLinks}
    ELSE {}

FirstPdf == TheDoc["links"].items[CHOOSE p \in PdfPositions : \A q \in PdfPositions : p <= q]

ArxivFieldOrder ==
    <<[label |-> "Summary", key |-> "Summary"],
      [label |-> "Authors", key |-> "Authors"],
      [label |-> "Published", key |-> "Published"],
      [label |-> "Primary Category", key |-> "primary_category"],
      [label |-> "Categories", key |-> "categories"],
      [label |-> "Comment", key |-> "comment"],
      [label |-> "Journal Reference", key |-> "journal_ref"],
      [label |-> "DOI", key |-> "doi"]>>

PubmedFieldOrder ==
    <<[label |-> "Published", key |-> "Published"],
      [label |-> "Copyright Information", key |-> "Copyright Information"],
      [label |-> "Summary", key |-> "Summary"]>>

\* The lines of the fields of the given order that are present.
LinesOfPresent(order) ==
    LET present == SelectSeq(order, LAMBDA f : Present(f.key))
    IN  [p \in 1..Len(present) |-> [label |-> present[p].label, value |-> Written(present[p].key)]]

----------------------------------------------------------------------------
----------------------------------------------------------------------------
\* The resources that existed when the function was called.
Existing == 1..(Len(resources) - (IF pc = "done" THEN 1 ELSE 0))

PostSent == \E q \in 1..Len(log) : log[q].op = "POST"

\* A delete request for the resource of this id has been sent.
DeleteSent(id) == \E q \in 1..Len(log) : log[q].op = "DELETE" /\ log[q].id = id

\* The name of a resource: 'name' of a file or an assistant, 'function.name'
\* of a tool.
NameOf(r) == IF r.kind = "tool" THEN r.function.name ELSE r.name

\* C26 as stated: when the creation request is sent, every resource of the
\* same kind that existed with the new name has been deleted; and a delete
\* request is only ever sent for a resource of that kind with that name.
C26_DeletesSameNameOnly ==
    api \in VapiFunctions =>
        /\ PostSent =>
            \A p \in Existing :
                (resources[p].kind = kind_of(api) /\ NameOf(resources[p]) = new_name) =>
                    DeleteSent(resources[p].id) /\ resources[p].deleted
        /\ \A p \in 1..Len(resources) :
            DeleteSent(resources[p].id) =>
                resources[p].kind = kind_of(api) /\ NameOf(resources[p]) = new_name
        /\ \A q \in 1..Len(log) : log[q].op = "POST" => q = Len(log)

\* A file also goes by its originalName.
GoesBy(r, name) ==
    NameOf(r) = name \/ (r.kind = "file" /\ r.originalName = name)

\* C26 amended: as C26, with a file counted as having the new name when its
\* name or its originalName equals it: such files are deleted too, whatever
\* their name.
C26_DeletesSameNameOrOriginalName ==
    api \in VapiFunctions =>
        /\ PostSent =>
            \A p \in Existing :
                (resources[p].kind = kind_of(api) /\ GoesBy(resources[p], new_name)) =>
                    DeleteSent(resources[p].id) /\ resources[p].deleted
        /\ \A p \in 1..Len(resources) :
            DeleteSent(resources[p].id) =>
                resources[p].kind = kind_of(api) /\ GoesBy(resources[p], new_name)
        /\ \A q \in 1..Len(log) : log[q].op = "POST" => q = Len(log)

\* C26 witness: an upload has been made after the deletion of a file of
\* that name and of a file of another name with that originalName, while a
\* third resource was left alone.
C26_Witness ==
    /\ api = "upload_file_to_vapi" /\ pc = "done"
    /\ \E p, q, r \in 1..(Len(resources) - 1) :
        /\ resources[p].kind = "file" /\ resources[p].name = new_name /\ resources[p].deleted
        /\ resources[q].kind = "file" /\ resources[q].name # new_name
        /\ resources[q].originalName = new_name /\ resources[q].deleted
        /\ ~resources[r].deleted

====
